---- MODULE Spec2Model ----
(***************************************************************************)
(* shelvez: the memoization decorator (SqlCache) over its two tiers, the   *)
(* in-process cachetools map and the SQLite cache table.                   *)
(*                                                                         *)
(* Time is one integer clock read by time.time() and by the memory tier's  *)
(* timer; a call through the decorator is one step, so every clock reading *)
(* inside one call is the same value.                                      *)
(*                                                                         *)
(* The cache table is a sequence of rows in rowid order: INSERT OR REPLACE *)
(* removes the conflicting row and appends the new one (largest rowid),    *)
(* UPDATE keeps a row's place, and ORDER BY last_access walks the index    *)
(* idx_last_access, whose equal entries are in rowid order.                *)
(***************************************************************************)
EXTENDS Integers, Sequences, FiniteSets, TLC

\* ------------------------------------------------------------------ bounds
MaxTime == 2
MaxCalls == 3
MaxCount == 2
MaxStaleTime == 4
MaxArgs == 2

\* ------------------------------------------------- the configuration space
\* ttl = None; `if ttl:` and `ttl or 3600` treat None and 0 alike.
NoTtl == 0
\* TTLCache(maxsize=max_size, ttl=ttl or 3600)
DefaultMemoryTtl == 3600

CacheTypes == {"ttl", "lru"}
TtlChoices == {NoTtl, 1}
\* a ttl long enough for an entry to be read back from the table and then
\* outlive it in the memory tier
StaleTtl == 3
SizeChoices == {1, 2}

\* positional arguments the decorated function is called with
Args == {0, 1, 2}
\* func.__name__ of the decorated function
FuncName == "test_func"

\* Python None: a result of the wrapped function, and what get() returns
\* when it finds no row.
None == -1
\* The wrapped function raises, returns None, or returns a value that tells
\* when it was computed (the clock reading t of that execution).
Raise == -2
Outcomes(t) == {Raise, None, t}

VARIABLES
    now,            \* the clock
    cache_type,     \* SqlCache.cache_type
    ttl,            \* SqlCache.ttl
    max_size,       \* SqlCache.max_size
    cx,             \* _Database._cx is a connection (TRUE) or None (FALSE)
    committed,      \* rows of table cache in the file, as any new connection sees them
    table,          \* rows of table cache as this connection sees them
    in_transaction, \* the connection has an open (implicit) transaction
    memory,         \* SqlCache._memory_cache, least recently used first
    call_count,     \* executions of the wrapped function
    miss_run,       \* arguments of the latest unbroken run of calls that missed
    last,           \* the last operation and what the caller saw
    probe,          \* the inputs and the result of a function applied on its own
    cache_file,     \* the file at cache_path exists
    store_file,     \* the file of the persistent store, as a new connection sees it
    dbm,            \* the _Database handle on that file
    threads,        \* where each thread is in its call of the decorated function
    handles,        \* the _Database handles that share the file of the store
    stores,         \* the _SqlCacheDatabase handles that share one cache file
    shelf           \* the Shelf over the persistent store

\* the persistent store
storeVars == <<store_file, dbm>>

\* the state beside the decorator and its cache table
others == <<probe, cache_file, storeVars, threads, handles, stores, shelf>>

vars == <<now, cache_type, ttl, max_size, cx, committed, table,
          in_transaction, memory, call_count, miss_run, last, others>>

\* no function has been applied on its own
NoProbe == [op |-> "none"]

\* The threads of the process; the first is the one that constructs the
\* SqlCache, and with it the sqlite3 connection.
Threads == {"MainThread", "Thread-1"}
Owner == "MainThread"

\* a thread that is not in a call
IdleThread ==
    [pc |-> "idle", arg |-> -1, outcome |-> "none", value |-> -1,
     executed |-> FALSE, missed |-> FALSE]

\* no thread is in a call
NoThreads == [t \in Threads |-> IdleThread]

\* keys and values (bytes) of the persistent store
StoreKeys == {"k1", "k2"}
StoreValues == {"v1", "v2"}

\* table Dict without rows; a table is a function from its keys to its blobs
EmptyDict == [k \in {} |-> k]

\* no dictionary: the Zstd table has no row, ZstdCompressor(zstd_dict=None)
NoDict == [trained |-> EmptyDict]

\* the store's path names no file
NoFile == [exists |-> FALSE, Dict |-> EmptyDict, zstd_dict |-> NoDict]

\* No _Database has been constructed.  A handle has its connection (cx), the
\* mode of its URI (flag), the transaction control of its connection
\* (autocommit), the tables as its connection sees them (Dict, zstd_dict) and
\* the dictionary its compressor is bound to.
NoHandle ==
    [cx |-> FALSE, flag |-> "none", autocommit |-> FALSE, Dict |-> EmptyDict,
     zstd_dict |-> NoDict, compressor |-> NoDict, in_transaction |-> FALSE]

\* Two handles on one file, each opened with autocommit=True as
\* DbfilenameShelf opens them; such a handle sees the file as it is, and
\* keeps only its connection, the mode of its URI and its compressor.
Handles == {"a", "b"}
NoHandles == [h \in Handles |-> [cx |-> FALSE, flag |-> "none", compressor |-> NoDict]]

\* A _SqlCacheDatabase handle: its connection (cx), whether a transaction is
\* open on it (in_transaction), whether that transaction holds the write lock
\* of the file (writer) and the rows of table cache as the connection sees
\* them (cache).
NoStore == [cx |-> FALSE, in_transaction |-> FALSE, writer |-> FALSE, cache |-> << >>]
NoStores == [h \in Handles |-> NoStore]

\* The Shelf: whether self.dict is the store, never set or _ClosedDict
\* (dict), self.writeback and self.cache.
NoShelf == [dict |-> "none", writeback |-> FALSE, cache |-> << >>]

\* the persistent store is not in use
StoreIdle == store_file = NoFile /\ dbm = NoHandle

\* --------------------------------------------------------------- encodings
\* PickleSerializer.serialize / unserialize
serialize(obj) == [pickle |-> obj]
unserialize(obj) == obj.pickle

\* ZstdCompressor.compress / decompress; the cache file never holds a
\* dictionary, so the compressor is the one built with zstd_dict = None.
compress(data) == [zstd |-> data]
decompress(data) == data.zstd

\* _SqlCacheDatabase._generate_key
generate_key(func_name, args) == <<func_name, args>>

\* ------------------------------------------------------------ sequence aid
RemoveAt(s, i) == SubSeq(s, 1, i - 1) \o SubSeq(s, i + 1, Len(s))

IndexOf(s, key) == CHOOSE i \in DOMAIN s : s[i].key = key

HasKey(s, key) == \E i \in DOMAIN s : s[i].key = key

KeysOf(s) == {s[i].key : i \in DOMAIN s}

\* ------------------------------------------------------------ memory tier
\* An entry of SqlCache._memory_cache.  expires is the TTLCache link's expiry
\* time; an LRUCache entry carries 0 there and never reads it.

\* TTLCache.expire(time): drops every entry whose expiry time is reached.
mem_expire(ct, m, t) ==
    IF ct = "ttl" THEN SelectSeq(m, LAMBDA e : t < e.expires) ELSE m

\* cache_key in self._memory_cache.  TTLCache.__contains__ answers False for
\* an entry whose expiry time is reached; neither class reorders on `in`.
mem_contains(ct, m, key, t) ==
    \E i \in DOMAIN m : m[i].key = key /\ (ct = "ttl" => t < m[i].expires)

\* self._memory_cache[cache_key]: the value read ...
mem_value(m, key) == m[IndexOf(m, key)].value

\* ... and the entry becoming the most recently used one.
mem_touch(m, key) ==
    LET i == IndexOf(m, key) IN RemoveAt(m, i) \o <<m[i]>>

\* the expiry time a TTLCache gives an entry stored at time t
mem_expires(ct, T, t) ==
    IF ct = "ttl" THEN t + (IF T # NoTtl THEN T ELSE DefaultMemoryTtl) ELSE 0

\* self._memory_cache[cache_key] = value.  TTLCache first expires; a key that
\* is not held evicts least recently used entries until there is room; the
\* entry is stored as the most recently used one.
mem_setitem(ct, T, maxsize, m, key, value, t) ==
    LET live == mem_expire(ct, m, t)
        kept == IF HasKey(live, key) THEN RemoveAt(live, IndexOf(live, key))
                ELSE IF Len(live) + 1 > maxsize
                     THEN SubSeq(live, Len(live) + 2 - maxsize, Len(live))
                     ELSE live
    IN  kept \o <<[key |-> key, value |-> value, expires |-> mem_expires(ct, T, t)]>>

\* clear() that forgets the memory tier
mem_clear_keeps(m) == m

\* self._memory_cache.clear()
mem_clear(m) == << >>

\* -------------------------------------------------------------- disk tier
\* A row of table cache; value is the stored blob.
Row(key, value, t) ==
    [key |-> key, value |-> compress(serialize(value)),
     created_at |-> t, access_count |-> 1, last_access |-> t]

\* a WHERE clause without the age condition
db_match_any_age(row, key, T, t) == row.key = key

\* the WHERE clause of get: key = ? [AND created_at > current_time - ttl]
db_match(row, key, T, t) ==
    row.key = key /\ (T # NoTtl => row.created_at > t - T)

\* a get that fetches without its UPDATE
db_get_only(rows, key, T, t) ==
    IF \E i \in DOMAIN rows : db_match(rows[i], key, T, t)
    THEN LET i == CHOOSE j \in DOMAIN rows : db_match(rows[j], key, T, t)
         IN  [hit |-> TRUE,
              value |-> unserialize(decompress(rows[i].value)),
              rows |-> rows]
    ELSE [hit |-> FALSE, value |-> None, rows |-> rows]

\* _SqlCacheDatabase.get: hit tells whether a row was fetched, value is what
\* get returns (None when no row was fetched), rows is the table afterwards.
db_get(rows, key, T, t) ==
    IF \E i \in DOMAIN rows : db_match(rows[i], key, T, t)
    THEN LET i == CHOOSE j \in DOMAIN rows : db_match(rows[j], key, T, t)
         IN  [hit |-> TRUE,
              value |-> unserialize(decompress(rows[i].value)),
              rows |-> [rows EXCEPT ![i].access_count = @ + 1,
                                    ![i].last_access = t]]
    ELSE [hit |-> FALSE, value |-> None, rows |-> rows]

\* _SqlCacheDatabase.set: INSERT OR REPLACE
db_set(rows, key, value, t) ==
    SelectSeq(rows, LAMBDA r : r.key # key) \o <<Row(key, value, t)>>

\* _SqlCacheDatabase.delete
db_delete(rows, key) == SelectSeq(rows, LAMBDA r : r.key # key)

\* _SqlCacheDatabase.clear: DELETE FROM cache
db_clear(rows) == << >>

\* a sweep by the time of the last access
cleanup_idle(rows, T, t) ==
    SelectSeq(rows, LAMBDA r : ~(r.last_access < t - T))

\* _SqlCacheDatabase.cleanup_expired
cleanup_expired(rows, T, t) ==
    SelectSeq(rows, LAMBDA r : ~(r.created_at < t - T))

\* ORDER BY created_at ASC, the wrong column
lru_before_created_at(rows, i, j) ==
    \/ rows[i].created_at < rows[j].created_at
    \/ rows[i].created_at = rows[j].created_at /\ i < j

\* ORDER BY last_access ASC: row i comes before row j
lru_before(rows, i, j) ==
    \/ rows[i].last_access < rows[j].last_access
    \/ rows[i].last_access = rows[j].last_access /\ i < j

\* the place of row i in that order, counted from 1
lru_rank(rows, i) ==
    1 + Cardinality({j \in DOMAIN rows : lru_before(rows, j, i)})

\* the rows deleted by ... LIMIT excess
lru_victims(rows, excess) ==
    {i \in DOMAIN rows : lru_rank(rows, i) <= excess}

RECURSIVE keep_rows(_, _, _)
keep_rows(rows, drop, i) ==
    IF i > Len(rows) THEN << >>
    ELSE (IF i \in drop THEN << >> ELSE <<rows[i]>>) \o keep_rows(rows, drop, i + 1)

\* _SqlCacheDatabase.cleanup_lru
cleanup_lru(rows, maxsize) ==
    LET count == Len(rows) IN
    IF count > maxsize
    THEN keep_rows(rows, lru_victims(rows, count - maxsize), 1)
    ELSE rows

\* a _cleanup that picks the sweep by the ttl alone
cleanup_by_ttl(ct, T, maxsize, rows, t) ==
    IF T # NoTtl
    THEN cleanup_expired(rows, T, t)
    ELSE cleanup_lru(rows, maxsize)

\* SqlCache._cleanup
cleanup(ct, T, maxsize, rows, t) ==
    IF ct = "ttl" /\ T # NoTtl
    THEN cleanup_expired(rows, T, t)
    ELSE cleanup_lru(rows, maxsize)

\* ------------------------------------------------------------ the decorator
\* What the last step did: the operation, the positional argument of a call
\* (or the parameter of a sweep), how it ended, the value returned, whether the wrapped function was
\* executed and which tier answered.
Outcome(op, arg, outcome, value, executed, source) ==
    [op |-> op, arg |-> arg, outcome |-> outcome,
     value |-> value, executed |-> executed, source |-> source]

\* SqlCache.__init__(cache_path, max_size, ttl, cache_type) on a file whose
\* cache table is empty.
SqlCacheNew(ct, T, n) ==
    /\ now = 0
    /\ cache_type = ct
    /\ ttl = T
    /\ max_size = n
    /\ cx = TRUE
    /\ committed = << >>
    /\ table = << >>
    /\ in_transaction = FALSE
    /\ memory = << >>
    /\ call_count = 0
    /\ miss_run = << >>
    /\ last = Outcome("init", -1, "return", None, FALSE, "none")
    /\ cache_file = TRUE

\* nothing beside the decorator is in use
OthersIdle ==
    /\ probe = NoProbe /\ StoreIdle /\ threads = NoThreads /\ handles = NoHandles
    /\ stores = NoStores /\ shelf = NoShelf

Init ==
    /\ \E ct \in CacheTypes : \E T \in TtlChoices : \E n \in SizeChoices :
           SqlCacheNew(ct, T, n)
    /\ OthersIdle

\* time passes, up to a horizon
TickTo(limit) ==
    /\ now < limit
    /\ now' = now + 1
    /\ last' = Outcome("tick", -1, "return", None, FALSE, "none")
    /\ UNCHANGED <<cache_type, ttl, max_size, cx, committed, table,
                   in_transaction, memory, call_count, miss_run, others>>

Tick == TickTo(MaxTime)

\* the memory tier answers: return self._memory_cache[cache_key]
WrapperMemoryHit(x, key) ==
    /\ memory' = mem_touch(memory, key)
    /\ last' = Outcome("call", x, "return", mem_value(memory, key), FALSE, "memory")
    /\ UNCHANGED <<table, in_transaction, call_count>>

\* self._db.get on a closed handle: _execute raises, nothing else happens
WrapperClosed(x) ==
    /\ last' = Outcome("call", x, "SqlCacheError", None, FALSE, "none")
    /\ UNCHANGED <<table, in_transaction, memory, call_count>>

\* cached_value is not None: the memory tier is filled and the value returned
WrapperDiskHit(x, key, g) ==
    /\ table' = g.rows
    /\ in_transaction' = TRUE
    /\ memory' = mem_setitem(cache_type, ttl, max_size, memory, key, g.value, now)
    /\ last' = Outcome("call", x, "return", g.value, FALSE, "disk")
    /\ UNCHANGED call_count

\* result = func(*args, **kwargs) and what follows it
WrapperCompute(x, key, g, out) ==
    /\ call_count < MaxCalls
    /\ call_count' = call_count + 1
    /\ IF out = Raise
       THEN /\ table' = g.rows
            /\ in_transaction' = (in_transaction \/ g.hit)
            /\ last' = Outcome("call", x, "raise", None, TRUE, "compute")
            /\ UNCHANGED memory
       ELSE /\ table' = cleanup(cache_type, ttl, max_size,
                                db_set(g.rows, key, out, now), now)
            /\ in_transaction' = TRUE
            /\ memory' = mem_setitem(cache_type, ttl, max_size, memory, key, out, now)
            /\ last' = Outcome("call", x, "return", out, TRUE, "compute")

\* The run of misses after a call for x: a call that executed the function and
\* returned extends the run (a repeated argument starts the run again after
\* its earlier place), any other call ends it; the last max_size + 1 are kept.
RunAfter(run, x, missed, maxsize) ==
    IF ~missed THEN << >>
    ELSE LET fresh == IF \E i \in DOMAIN run : run[i] = x
                      THEN SubSeq(run, 1 + (CHOOSE i \in DOMAIN run : run[i] = x), Len(run))
                      ELSE run
             all == fresh \o <<x>>
         IN  IF Len(all) > maxsize + 1
             THEN SubSeq(all, Len(all) - maxsize, Len(all))
             ELSE all

\* SqlCache.__call__.wrapper, one call with positional argument x
wrapper(x) ==
    LET key == generate_key(FuncName, x)
        g == db_get(table, key, ttl, now)
    IN  /\ IF mem_contains(cache_type, memory, key, now)
           THEN WrapperMemoryHit(x, key)
           ELSE IF ~cx
           THEN WrapperClosed(x)
           ELSE /\ \A i \in DOMAIN g.rows : g.rows[i].access_count <= MaxCount
                /\ IF g.value # None
                   THEN WrapperDiskHit(x, key, g)
                   ELSE \E out \in Outcomes(now) : WrapperCompute(x, key, g, out)
        /\ miss_run' = RunAfter(miss_run, x,
                                last'.executed /\ last'.outcome = "return", max_size)
        /\ UNCHANGED <<now, cache_type, ttl, max_size, cx, committed, others>>

\* SqlCache.clear; the step records how many rows the DELETE removed.
clear ==
    /\ IF cx
       THEN /\ table' = db_clear(table)
            /\ in_transaction' = TRUE
            /\ memory' = mem_clear(memory)
            /\ last' = Outcome("clear", Len(table), "return", None, FALSE, "none")
       ELSE /\ last' = Outcome("clear", -1, "SqlCacheError", None, FALSE, "none")
            /\ UNCHANGED <<table, in_transaction, memory>>
    /\ miss_run' = << >>
    /\ UNCHANGED <<now, cache_type, ttl, max_size, cx, committed,
                   call_count, others>>

\* SqlCache.close -> _Database.close: the connection is closed without a
\* commit, which rolls the open transaction back; a second close does nothing.
close ==
    /\ cx' = FALSE
    /\ table' = IF cx THEN committed ELSE table
    /\ in_transaction' = FALSE
    /\ last' = Outcome("close", -1, "return", None, FALSE, "none")
    /\ miss_run' = << >>
    /\ UNCHANGED <<now, cache_type, ttl, max_size, committed, memory,
                   call_count, others>>

\* A new SqlCache on the same file with the same configuration, built after
\* the previous one was closed or its process ended: a new connection and an
\* empty memory tier.
SqlCacheInit ==
    /\ cx' = TRUE
    /\ table' = committed
    /\ in_transaction' = FALSE
    /\ memory' = << >>
    /\ last' = Outcome("init", -1, "return", None, FALSE, "none")
    /\ miss_run' = << >>
    /\ UNCHANGED <<now, cache_type, ttl, max_size, committed,
                   call_count, others>>

Next ==
    \/ Tick
    \/ \E x \in Args : wrapper(x)
    \/ clear
    \/ close
    \/ SqlCacheInit

Spec == Init /\ [][Next]_vars

\* ------------------------------------- one ttl cache over a longer horizon
\* ttl_cache(max_size=1, ttl=StaleTtl), followed for longer than its ttl.
InitStale == SqlCacheNew("ttl", StaleTtl, 1) /\ OthersIdle

NextStale ==
    \/ TickTo(MaxStaleTime)
    \/ \E x \in Args : wrapper(x)
    \/ clear
    \/ close
    \/ SqlCacheInit

SpecStale == InitStale /\ [][NextStale]_vars

\* ------------------------------------------- the cache store on its own
\* The operations of _SqlCacheDatabase called directly on an open handle, as
\* its tests do; the key of argument x stands for any text key, and the value
\* set is the clock reading, so that a None from get is a miss.
GetTtls == {NoTtl, 1}
ExpireTtls == {1}
LruSizes == {0, 1, 2}

DbFrame == UNCHANGED <<now, cache_type, ttl, max_size, cx, committed,
                       memory, call_count, miss_run, others>>

\* _SqlCacheDatabase.set(key, value)
DbSet(x, value) ==
    /\ table' = db_set(table, generate_key(FuncName, x), value, now)
    /\ in_transaction' = TRUE
    /\ last' = Outcome("set", -1, "return", None, FALSE, "none")
    /\ DbFrame

\* _SqlCacheDatabase.get(key, ttl)
DbGet(x, T) ==
    LET g == db_get(table, generate_key(FuncName, x), T, now) IN
    /\ \A i \in DOMAIN g.rows : g.rows[i].access_count <= MaxCount
    /\ table' = g.rows
    /\ in_transaction' = (in_transaction \/ g.hit)
    /\ last' = Outcome("get", -1, "return", g.value, FALSE, "disk")
    /\ DbFrame

\* _SqlCacheDatabase.delete(key)
DbDelete(x) ==
    /\ table' = db_delete(table, generate_key(FuncName, x))
    /\ in_transaction' = TRUE
    /\ last' = Outcome("delete", -1, "return", None, FALSE, "none")
    /\ DbFrame

\* _SqlCacheDatabase.clear()
DbClear ==
    /\ table' = db_clear(table)
    /\ in_transaction' = TRUE
    /\ last' = Outcome("db_clear", -1, "return", None, FALSE, "none")
    /\ DbFrame

\* _SqlCacheDatabase.cleanup_expired(ttl)
DbCleanupExpired(T) ==
    /\ table' = cleanup_expired(table, T, now)
    /\ in_transaction' = TRUE
    /\ last' = Outcome("cleanup_expired", -1, "return", None, FALSE, "none")
    /\ DbFrame

\* _SqlCacheDatabase.cleanup_lru(max_size); the DELETE runs only when the
\* count exceeds max_size.  The step records max_size and the count read.
DbCleanupLru(n) ==
    /\ table' = cleanup_lru(table, n)
    /\ in_transaction' = (in_transaction \/ Len(table) > n)
    /\ last' = Outcome("cleanup_lru", n, "return", Len(table), FALSE, "none")
    /\ DbFrame

NextDb ==
    \/ Tick
    \/ \E x \in Args : DbSet(x, now)
    \/ \E x \in Args : \E T \in GetTtls : DbGet(x, T)
    \/ \E x \in Args : DbDelete(x)
    \/ DbClear
    \/ \E T \in ExpireTtls : DbCleanupExpired(T)
    \/ \E n \in LruSizes : DbCleanupLru(n)

\* _SqlCacheDatabase.__init__ on a new file; the decorator's own state is
\* not used.
InitDb == SqlCacheNew("lru", NoTtl, 1) /\ OthersIdle

SpecDb == InitDb /\ [][NextDb]_vars

\* ------------------------------------------------------------------ typing
TypeOK ==
    /\ now \in 0..MaxStaleTime
    /\ cx \in BOOLEAN
    /\ in_transaction \in BOOLEAN
    /\ call_count \in 0..MaxCalls
    /\ Len(memory) <= max_size
    /\ committed = << >>

\* ================================================================ claims
\* the derived key of a call with positional argument x
KeyOf(x) == generate_key(FuncName, x)

\* the rows of a table, as a set
Rows(t) == {t[i] : i \in DOMAIN t}

\* the memory tier holds an unexpired entry for x
InMemory(x) == mem_contains(cache_type, memory, KeyOf(x), now)

\* the disk tier holds a row for x that the configured ttl has not expired
OnDisk(x) ==
    \E r \in Rows(table) :
        r.key = KeyOf(x) /\ (ttl # NoTtl => now - r.created_at < ttl)

\* the value stored in the row of x
StoredValue(x) ==
    (CHOOSE r \in Rows(table) : r.key = KeyOf(x)).value.zstd.pickle

\* some tier holds an entry for x that has not expired, been evicted or cleared
EntryLive(x) == InMemory(x) \/ OnDisk(x)

\* the value of that entry
CachedValue(x) == IF InMemory(x) THEN mem_value(memory, KeyOf(x)) ELSE StoredValue(x)

\* C1: a call whose arguments have a live entry returns the cached value and
\* does not execute the wrapped function.
C1_MemoizationHit ==
    [][\A x \in Args :
          (wrapper(x) /\ EntryLive(x)) =>
              /\ last'.outcome = "return"
              /\ ~last'.executed
              /\ last'.value = CachedValue(x)]_vars

\* C2: a call in which the wrapped function raises propagates the exception,
\* leaves both tiers as they were, and leaves no entry that could answer a
\* retried call.
C2_FailureNeverCached ==
    [][\A x \in Args :
          (wrapper(x) /\ last'.executed /\ last'.outcome # "return") =>
              /\ last'.outcome = "raise"
              /\ memory' = memory
              /\ table' = table
              /\ ~InMemory(x)'
              /\ ~(OnDisk(x)' /\ StoredValue(x)' # None)]_vars

\* C3: under policy "ttl" with ttl = T, no call returns a value that was
\* computed more than T ago.
C3_TtlExpiry ==
    (/\ cache_type = "ttl"
     /\ ttl # NoTtl
     /\ last.op = "call"
     /\ last.outcome = "return"
     /\ last.value # None) => now - last.value <= ttl

\* C4: no call through the decorator fails because the disk-tier handle was
\* closed.
C4_LazyReconnect ==
    last.op = "call" => last.outcome # "SqlCacheError"

\* C5: every row the handle sees is in the file, for a new handle to find,
\* once the handle is closed or replaced by a new instance.
C5_DiskDurability ==
    [][(close \/ SqlCacheInit) => Rows(table) \subseteq Rows(committed')]_vars

\* C6: when clear() has returned both tiers are empty, and the next call for
\* any argument executes the wrapped function.
ClearReturned == last.op = "clear" /\ last.outcome = "return"

C6_ClearEmptiesBothTiers ==
    [][/\ ClearReturned' => (table' = << >> /\ memory' = << >>)
       /\ ClearReturned => \A x \in Args : wrapper(x) => last'.executed]_vars

\* clear() returned after removing rows
C6_Witness ==
    ClearReturned /\ last.arg > 0

\* C7: cleanup_lru(max_size) on n rows deletes nothing when n <= max_size;
\* otherwise it deletes n - max_size rows, none of them accessed later than a
\* row it keeps, and leaves the others as they were.
C7_CleanupLru ==
    [][\A n \in LruSizes :
          (last'.op = "cleanup_lru" /\ last'.arg = n /\ DbCleanupLru(n)) =>
              IF Len(table) > n
              THEN /\ Rows(table') \subseteq Rows(table)
                   /\ Len(table') = n
                   /\ \A d \in Rows(table) \ Rows(table') :
                        \A k \in Rows(table') : d.last_access <= k.last_access
              ELSE table' = table]_vars

\* three rows read, one kept: the kept row was not the last one written
C7_Witness ==
    /\ last.op = "cleanup_lru"
    /\ last.value = 3
    /\ Len(table) = 1
    /\ table[1].created_at < table[1].last_access

\* C8: under policy "lru", after max_size + 1 calls in a row that missed, for
\* distinct arguments, the first of them is in neither tier, and calling it
\* executes the wrapped function.
RunFull == cache_type = "lru" /\ Len(miss_run) = max_size + 1

C8_LruEviction ==
    [][/\ RunFull' => (/\ ~HasKey(memory', KeyOf(miss_run'[1]))
                       /\ ~HasKey(table', KeyOf(miss_run'[1])))
       /\ RunFull => (wrapper(miss_run[1]) => last'.executed)]_vars

C8_Witness ==
    RunFull /\ max_size = 2 /\ last.op = "call" /\ Len(table) = max_size

\* C9: get(key, ttl) returns the stored value when a row of the key has
\* created_at > now - ttl, and None otherwise, leaving the table as it was;
\* with no ttl the age does not matter; no get removes a row.
C9_GetWithTtl ==
    [][\A x \in Args : \A T \in GetTtls :
          (last'.op = "get" /\ DbGet(x, T)) =>
              LET fresh == {r \in Rows(table) :
                               /\ r.key = KeyOf(x)
                               /\ (T = NoTtl \/ r.created_at > now - T)}
              IN  /\ fresh # {} => \E r \in fresh : last'.value = r.value.zstd.pickle
                  /\ fresh = {} => (last'.value = None /\ table' = table)
                  /\ KeysOf(table') = KeysOf(table)]_vars

\* every key has a row with a value, and a get found none young enough
C9_Witness ==
    /\ last.op = "get"
    /\ last.value = None
    /\ Len(table) = Cardinality(Args)
    /\ \A r \in Rows(table) : r.value.zstd.pickle # None

\* C10: a call whose arguments have a live entry holding None returns None
\* and does not execute the wrapped function.
C10_NoneIsCached ==
    [][\A x \in Args :
          (wrapper(x) /\ EntryLive(x) /\ CachedValue(x) = None) =>
              /\ last'.outcome = "return"
              /\ ~last'.executed
              /\ last'.value = None]_vars

\* ======================================================= the key of a call
\* _generate_key on calls whose arguments are strings.  A string the caller
\* holds is an object: ObjIds are the objects, heap gives each its text, and
\* two objects may hold equal text.  Keyword names are naturals in the order
\* sorted() gives their strings.
ObjIds == {1, 2}
Strs == {"x", "y"}
FuncNames == {"f", "g"}
KwNames == {1, 2}

Heaps == [ObjIds -> Strs]

\* args: the positional arguments, at most MaxArgs of them
ArgSeqs == UNION {[1..n -> ObjIds] : n \in 0..MaxArgs}

\* kwargs: items in the order the call wrote them, each name once
KwSeqs ==
    {kw \in UNION {[1..n -> KwNames \X ObjIds] : n \in 0..Cardinality(KwNames)} :
        \A i, j \in DOMAIN kw : i # j => kw[i][1] # kw[j][1]}

Calls == [func_name : FuncNames, args : ArgSeqs, kwargs : KwSeqs]

\* sorted(kwargs.items()): names are distinct, so the names alone order them
RECURSIVE sorted(_)
sorted(items) ==
    IF items = << >> THEN << >>
    ELSE LET m == CHOOSE i \in DOMAIN items :
                      \A j \in DOMAIN items : items[i][1] <= items[j][1]
         IN  <<items[m]>> \o sorted(RemoveAt(items, m))

\* pickle.dumps writes the text of a string the first time it meets the
\* object and a reference to the memo when it meets the same object again.
pickle_str(heap, objs, i) ==
    IF \E j \in 1..(i - 1) : objs[j] = objs[i]
    THEN [memo |-> CHOOSE j \in 1..(i - 1) :
                       objs[j] = objs[i] /\ \A k \in 1..(j - 1) : objs[k] # objs[i]]
    ELSE [str |-> heap[objs[i]]]

\* pickle.dumps((func_name, args, tuple(sorted(kwargs.items()))))
pickle_dumps(heap, func_name, args, items) ==
    LET objs == args \o [i \in DOMAIN items |-> items[i][2]] IN
    [func_name |-> func_name,
     args |-> [i \in DOMAIN args |-> pickle_str(heap, objs, i)],
     kwargs |-> [i \in DOMAIN items |->
                    <<items[i][1], pickle_str(heap, objs, Len(args) + i)>>]]

\* hashlib.md5(key_bytes).hexdigest()
md5(key_bytes) == [md5 |-> key_bytes]

\* _SqlCacheDatabase._generate_key(func_name, args, kwargs)
generate_key_of(heap, call) ==
    md5(pickle_dumps(heap, call.func_name, call.args, sorted(call.kwargs)))

\* two calls are made and their keys derived
GenerateKey(a, b) ==
    /\ probe.op = "heap"
    /\ probe' = [op |-> "generate_key", heap |-> probe.heap, a |-> a, b |-> b,
                 key_a |-> generate_key_of(probe.heap, a),
                 key_b |-> generate_key_of(probe.heap, b)]
    /\ UNCHANGED <<now, cache_type, ttl, max_size, cx, committed, table,
                   in_transaction, memory, call_count, miss_run, last,
                   cache_file, storeVars, threads, handles, stores, shelf>>

InitKey ==
    /\ SqlCacheNew("lru", NoTtl, 1)
    /\ StoreIdle
    /\ threads = NoThreads
    /\ handles = NoHandles
    /\ stores = NoStores
    /\ shelf = NoShelf
    /\ probe \in [op : {"heap"}, heap : Heaps]

NextKey == probe.op = "heap" /\ \E a, b \in Calls : GenerateKey(a, b)

SpecKey == InitKey /\ [][NextKey]_vars

\* what a call passes: the function's name, the texts of the positional
\* arguments and the text given to each keyword
ArgValues(heap, call) == [i \in DOMAIN call.args |-> heap[call.args[i]]]
KwValues(heap, call) ==
    {<<call.kwargs[i][1], heap[call.kwargs[i][2]]>> : i \in DOMAIN call.kwargs}
Signature(heap, call) ==
    <<call.func_name, ArgValues(heap, call), KwValues(heap, call)>>

\* C11: equal call signatures get equal keys (whatever the order of the
\* keyword arguments), and calls that differ in the function name or in a
\* positional argument get different keys.
C11_KeyStability ==
    probe.op = "generate_key" =>
        /\ Signature(probe.heap, probe.a) = Signature(probe.heap, probe.b)
              => probe.key_a = probe.key_b
        /\ (\/ probe.a.func_name # probe.b.func_name
            \/ ArgValues(probe.heap, probe.a) # ArgValues(probe.heap, probe.b))
              => probe.key_a # probe.key_b

\* ================================================= constructing a cache
\* cache_type as the caller may write it
PolicyNames == {"ttl", "lru", "TTL", "Lru", "fifo", "invalid"}

\* str.lower() on those names
lower(name) ==
    CASE name = "TTL" -> "ttl"
      [] name = "Lru" -> "lru"
      [] OTHER -> name

\* the test of __init__ that accepts every name
any_cache_type(name) == TRUE

\* self.cache_type not in ["ttl", "lru"] is false
valid_cache_type(name) == lower(name) \in CacheTypes

\* no SqlCache has been constructed
NoCache == "none"

\* SqlCache(cache_path, max_size=n, ttl=T, cache_type=name) where no cache
\* object exists: the name is tested first, and only then is the database
\* opened, which creates the file and the table.
Construct(name, T, n) ==
    /\ cache_type = NoCache
    /\ IF valid_cache_type(name)
       THEN /\ cache_type' = lower(name)
            /\ ttl' = T
            /\ max_size' = n
            /\ cache_file' = TRUE
            /\ cx' = TRUE
            /\ table' = committed
            /\ last' = Outcome("construct", -1, "return", None, FALSE, "none")
       ELSE /\ last' = Outcome("construct", -1, "ValueError", None, FALSE, "none")
            /\ UNCHANGED <<cache_type, ttl, max_size, cache_file, cx, table>>
    /\ UNCHANGED <<now, committed, in_transaction, memory, call_count,
                   miss_run, probe, storeVars, threads, handles, stores, shelf>>

\* before any SqlCache is constructed; cache_path names no file
InitNew ==
    /\ now = 0
    /\ cache_type = NoCache
    /\ ttl = NoTtl
    /\ max_size = 0
    /\ cx = FALSE
    /\ committed = << >>
    /\ table = << >>
    /\ in_transaction = FALSE
    /\ memory = << >>
    /\ call_count = 0
    /\ miss_run = << >>
    /\ last = Outcome("none", -1, "return", None, FALSE, "none")
    /\ probe = NoProbe
    /\ cache_file = FALSE
    /\ StoreIdle
    /\ threads = NoThreads
    /\ handles = NoHandles
    /\ stores = NoStores
    /\ shelf = NoShelf

NextNew ==
    \/ \E name \in PolicyNames : \E T \in TtlChoices : \E n \in SizeChoices :
           Construct(name, T, n)
    \/ cache_type # NoCache /\ Next

SpecNew == InitNew /\ [][NextNew]_vars

\* C12, as stated: a construction whose policy name is not exactly "ttl" or
\* "lru" ends in ValueError, opens no handle and creates no file.
C12_AnyOtherNameRejected ==
    [][\A name \in PolicyNames : \A T \in TtlChoices : \A n \in SizeChoices :
          (name \notin {"ttl", "lru"} /\ Construct(name, T, n))
              => /\ last'.outcome = "ValueError"
                 /\ ~cx'
                 /\ cache_file' = cache_file]_vars

\* C12, amended: a construction whose policy name is neither "ttl" nor "lru"
\* when lower-cased ends in ValueError, opens no handle and creates no file.
C12_InvalidPolicyRejected ==
    [][\A name \in PolicyNames : \A T \in TtlChoices : \A n \in SizeChoices :
          (lower(name) \notin {"ttl", "lru"} /\ Construct(name, T, n))
              => /\ last'.outcome = "ValueError"
                 /\ ~cx'
                 /\ cache_file' = cache_file]_vars

\* a construction was rejected and cache_path still names no file
C12_Witness ==
    /\ last.op = "construct"
    /\ last.outcome = "ValueError"
    /\ ~cache_file
    /\ ~cx

\* ================================================ the sweep after a write
\* the table after get's bookkeeping and the write of a miss for x that
\* returned value, before any sweep
Written(x, value) ==
    db_set(db_get(table, KeyOf(x), ttl, now).rows, KeyOf(x), value, now)

\* cleanup_expired as policy "ttl" would run it: without a ttl no row is old
\* enough to delete
SweepExpired(rows) ==
    IF ttl = NoTtl THEN rows ELSE cleanup_expired(rows, ttl, now)

\* C13: after the write of a miss, a cache of policy "ttl" has swept the
\* table with cleanup_expired and a cache of policy "lru" with cleanup_lru,
\* whether or not a ttl is set.
C13_CleanupPolicySelection ==
    [][\A x \in Args :
          (wrapper(x) /\ last'.executed /\ last'.outcome = "return")
              => table' = IF cache_type = "ttl"
                          THEN SweepExpired(Written(x, last'.value))
                          ELSE cleanup_lru(Written(x, last'.value), max_size)]_vars

\* ==================================================== the persistent store
\* _Database of sqlite.py on one file, through one handle at a time.
Flags == {"r", "w", "c", "n", "x"}

\* what a decoder bound to another dictionary makes of a frame: frames carry
\* no dictionary id and no checksum, so it fails, or returns other bytes, or
\* (a frame that never refers to its dictionary) returns the data
WrongDictOutcomes == {"ZstdError", "garbage", "same"}

\* ZstdCompressor(zstd_dict=d).compress(data)
zstd_compress(d, data) == [zstd |-> data, dict |-> d]

\* a decoder that needs no dictionary
zstd_decompress_any(d, blob, w) == blob.zstd

\* ZstdCompressor(zstd_dict=d).decompress(blob); a frame written without a
\* dictionary decodes under any
zstd_decompress(d, blob, w) ==
    IF blob.dict = d \/ blob.dict = NoDict THEN blob.zstd
    ELSE IF w = "same" THEN blob.zstd
    ELSE w

\* ZstdCompressor.optimize_dict(samples): the dictionary is a function of
\* the samples it was trained on
optimize_dict(samples) == [trained |-> samples]

\* INSERT OR IGNORE, which keeps the row a key already has
put_ignore(D, k, blob) == [x \in DOMAIN D \cup {k} |-> IF x \in DOMAIN D THEN D[x] ELSE blob]

\* REPLACE INTO Dict (key, value)
put(D, k, blob) == [x \in DOMAIN D \cup {k} |-> IF x = k THEN blob ELSE D[x]]

\* DELETE FROM Dict WHERE key = k
remove(D, k) == [x \in DOMAIN D \ {k} |-> D[x]]

\* a URI that lets every flag create the file
uri_mode_rwc(flag) == "rwc"

\* mode= of the URI for each flag
uri_mode(flag) ==
    CASE flag = "r" -> "ro"
      [] flag = "w" -> "rw"
      [] OTHER -> "rwc"

StoreFrame == UNCHANGED <<now, cache_type, ttl, max_size, cx, committed, table,
                          in_transaction, memory, call_count, miss_run,
                          probe, cache_file, threads, handles, stores, shelf>>

\* open(filename, flag, sqlite3_kargs) while no handle is open
DbmOpen(flag, autocommit) ==
    /\ ~dbm.cx
    /\ IF flag \notin {"r", "w", "c", "n"}
       THEN /\ last' = Outcome("open", flag, "ValueError", None, FALSE, "none")
            /\ UNCHANGED storeVars
       ELSE IF uri_mode(flag) # "rwc" /\ ~store_file.exists
       THEN /\ last' = Outcome("open", flag, "error", None, FALSE, "none")
            /\ UNCHANGED storeVars
       ELSE LET new == flag = "n" \/ ~store_file.exists
                file == IF new
                        THEN [exists |-> TRUE, Dict |-> EmptyDict, zstd_dict |-> NoDict]
                        ELSE store_file
            IN  /\ store_file' = file
                /\ dbm' = [cx |-> TRUE, flag |-> uri_mode(flag),
                           autocommit |-> autocommit, Dict |-> file.Dict,
                           zstd_dict |-> file.zstd_dict,
                           compressor |-> file.zstd_dict,
                           in_transaction |-> FALSE]
                /\ last' = Outcome("open", flag, "return", None, FALSE, "none")
    /\ StoreFrame

\* the message of the error a closed handle raises
ERR_CLOSED == "DBM object has already been closed"

\* a handle on which nothing is ever found closed
never_closed(handle) == FALSE

\* _Database._execute: if not self._cx
closed(handle) == ~handle.cx

\* _Database.__setitem__(k, v)
DbmSet(k, v) ==
    /\ dbm.flag # "none"
    /\ IF closed(dbm) \/ dbm.flag = "ro"
       THEN /\ last' = Outcome("set", k,
                                IF closed(dbm) THEN ERR_CLOSED ELSE "error",
                                None, FALSE, "none")
            /\ UNCHANGED storeVars
       ELSE LET D == put(dbm.Dict, k, zstd_compress(dbm.compressor, v)) IN
            /\ dbm' = [dbm EXCEPT !.Dict = D,
                                  !.in_transaction = ~dbm.autocommit]
            /\ store_file' = IF dbm.autocommit
                             THEN [store_file EXCEPT !.Dict = D]
                             ELSE store_file
            /\ last' = Outcome("set", k, "return", None, FALSE, "none")
    /\ StoreFrame

\* a get that raised returned no bytes
NoBytes == ""

\* _Database.__getitem__(k)
DbmGet(k, w) ==
    /\ dbm.flag # "none"
    /\ last' = IF closed(dbm)
               THEN Outcome("get", k, ERR_CLOSED, NoBytes, FALSE, "none")
               ELSE IF k \notin DOMAIN dbm.Dict
               THEN Outcome("get", k, "KeyError", NoBytes, FALSE, "none")
               ELSE LET value == zstd_decompress(dbm.compressor, dbm.Dict[k], w) IN
                    IF value = "ZstdError"
                    THEN Outcome("get", k, "ZstdError", NoBytes, FALSE, "none")
                    ELSE Outcome("get", k, "return", value, FALSE, "none")
    /\ UNCHANGED storeVars
    /\ StoreFrame

\* _Database.__delitem__(k)
DbmDelete(k) ==
    /\ dbm.flag # "none"
    /\ IF closed(dbm) \/ dbm.flag = "ro"
       THEN /\ last' = Outcome("delete", k,
                                IF closed(dbm) THEN ERR_CLOSED ELSE "error",
                                None, FALSE, "none")
            /\ UNCHANGED storeVars
       ELSE IF k \notin DOMAIN dbm.Dict
       THEN /\ last' = Outcome("delete", k, "KeyError", None, FALSE, "none")
            /\ dbm' = [dbm EXCEPT !.in_transaction = ~dbm.autocommit]
            /\ UNCHANGED store_file
       ELSE LET D == remove(dbm.Dict, k) IN
            /\ dbm' = [dbm EXCEPT !.Dict = D,
                                  !.in_transaction = ~dbm.autocommit]
            /\ store_file' = IF dbm.autocommit
                             THEN [store_file EXCEPT !.Dict = D]
                             ELSE store_file
            /\ last' = Outcome("delete", k, "return", None, FALSE, "none")
    /\ StoreFrame

\* _Database.__len__()
DbmLen ==
    /\ dbm.flag # "none"
    /\ last' = IF closed(dbm)
               THEN Outcome("len", "", ERR_CLOSED, None, FALSE, "none")
               ELSE Outcome("len", "", "return", Cardinality(DOMAIN dbm.Dict),
                            FALSE, "none")
    /\ UNCHANGED storeVars
    /\ StoreFrame

\* _Database.keys(), the keys __iter__ yields
DbmKeys ==
    /\ dbm.flag # "none"
    /\ last' = IF closed(dbm)
               THEN Outcome("keys", "", ERR_CLOSED, {}, FALSE, "none")
               ELSE Outcome("keys", "", "return", DOMAIN dbm.Dict, FALSE, "none")
    /\ UNCHANGED storeVars
    /\ StoreFrame

\* a loop that writes the value of one key under every key
rewrite_one(zstd_dict, samples) ==
    [k \in DOMAIN samples |->
        zstd_compress(zstd_dict, samples[CHOOSE j \in DOMAIN samples : TRUE])]

\* for key, value in zip(keys, values): self[key] = value, with the
\* compressor bound to the new dictionary
rewrite(zstd_dict, samples) ==
    [k \in DOMAIN samples |-> zstd_compress(zstd_dict, samples[k])]

\* a handle whose compressor was dropped before the training
after_dropped_compressor(handle) == [handle EXCEPT !.compressor = NoDict]

\* the handle when optimize_dict has raised: no statement after it has run
after_failed_training(handle) == handle

\* _Database.optimize_database(): read every value, train a dictionary (which
\* may fail, and fails without samples), bind a new compressor, write every
\* row again, save the dictionary, VACUUM.  A read-only connection fails at
\* the first write, after the compressor was replaced; a connection that is
\* not in autocommit fails at VACUUM, inside the transaction of its writes.
DbmOptimize(trains, w) ==
    /\ dbm.flag # "none"
    /\ IF closed(dbm)
       THEN /\ last' = Outcome("optimize", "", ERR_CLOSED, None, FALSE, "none")
            /\ UNCHANGED storeVars
       ELSE LET samples == [k \in DOMAIN dbm.Dict |->
                               zstd_decompress(dbm.compressor, dbm.Dict[k], w)]
                zstd_dict == optimize_dict(samples)
                rows == rewrite(zstd_dict, samples)
            IN  IF \/ \E k \in DOMAIN samples : samples[k] = "ZstdError"
                   \/ DOMAIN samples = {}
                   \/ ~trains
                THEN /\ last' = Outcome("optimize", "", "ZstdError", None, FALSE, "none")
                     /\ dbm' = after_failed_training(dbm)
                     /\ UNCHANGED store_file
                ELSE IF dbm.flag = "ro"
                THEN /\ dbm' = [dbm EXCEPT !.compressor = zstd_dict]
                     /\ last' = Outcome("optimize", "", "error", None, FALSE, "none")
                     /\ UNCHANGED store_file
                ELSE /\ dbm' = [dbm EXCEPT !.Dict = rows,
                                           !.zstd_dict = zstd_dict,
                                           !.compressor = zstd_dict,
                                           !.in_transaction = ~dbm.autocommit]
                     /\ store_file' = IF dbm.autocommit
                                      THEN [store_file EXCEPT !.Dict = rows,
                                                              !.zstd_dict = zstd_dict]
                                      ELSE store_file
                     /\ last' = Outcome("optimize", "",
                                        IF dbm.autocommit THEN "return" ELSE "error",
                                        None, FALSE, "none")
    /\ StoreFrame

\* _Database.close(): the connection is closed without a commit, so what a
\* connection not in autocommit wrote is rolled back; a second close does
\* nothing.
DbmClose ==
    /\ dbm.flag # "none"
    /\ dbm' = [dbm EXCEPT !.cx = FALSE,
                          !.in_transaction = FALSE,
                          !.Dict = store_file.Dict,
                          !.zstd_dict = store_file.zstd_dict]
    /\ last' = Outcome("close", "", "return", None, FALSE, "none")
    /\ UNCHANGED store_file
    /\ StoreFrame

InitStore ==
    /\ SqlCacheNew("lru", NoTtl, 1)
    /\ OthersIdle

NextStore ==
    \/ \E flag \in Flags : \E autocommit \in BOOLEAN : DbmOpen(flag, autocommit)
    \/ \E k \in StoreKeys : \E v \in StoreValues : DbmSet(k, v)
    \/ \E k \in StoreKeys : \E w \in WrongDictOutcomes : DbmGet(k, w)
    \/ \E k \in StoreKeys : DbmDelete(k)
    \/ DbmLen
    \/ DbmKeys
    \/ \E trains \in BOOLEAN : \E w \in WrongDictOutcomes : DbmOptimize(trains, w)
    \/ DbmClose

SpecStore == InitStore /\ [][NextStore]_vars

\* the map a table holds: for each key the bytes its blob was made from
Map(D) == [k \in DOMAIN D |-> D[k].zstd]

\* the map m after m[k] = v, and after del m[k]
MapSet(m, k, v) == [x \in DOMAIN m \cup {k} |-> IF x = k THEN v ELSE m[x]]
MapDel(m, k) == [x \in DOMAIN m \ {k} |-> m[x]]

\* the handle is open and its compressor is bound to the dictionary its
\* connection sees in the file
HandleInOrder == dbm.cx /\ dbm.compressor = dbm.zstd_dict

\* C14: on an open handle the store is a map.  A set that returns maps its
\* key to its value and leaves the other keys alone; a delete removes a
\* present key and leaves the others alone, and signals KeyError on an absent
\* key without a change; get returns the value the map has for a key and
\* signals KeyError for a key it has not; len is the number of keys and keys()
\* is the set of keys.
C14_StoreIsAMap ==
    [][HandleInOrder =>
        /\ \A k \in StoreKeys : \A v \in StoreValues :
              (last'.op = "set" /\ last'.outcome = "return" /\ DbmSet(k, v))
                  => Map(dbm'.Dict) = MapSet(Map(dbm.Dict), k, v)
        /\ \A k \in StoreKeys :
              (last'.op = "delete" /\ dbm.flag # "ro" /\ DbmDelete(k))
                  => IF k \in DOMAIN dbm.Dict
                     THEN /\ last'.outcome = "return"
                          /\ Map(dbm'.Dict) = MapDel(Map(dbm.Dict), k)
                     ELSE /\ last'.outcome = "KeyError"
                          /\ dbm'.Dict = dbm.Dict
        /\ \A k \in StoreKeys : \A w \in WrongDictOutcomes :
              (last'.op = "get" /\ DbmGet(k, w))
                  => IF k \in DOMAIN dbm.Dict
                     THEN /\ last'.outcome = "return"
                          /\ last'.value = Map(dbm.Dict)[k]
                     ELSE last'.outcome = "KeyError"
        /\ (last'.op = "len" /\ DbmLen)
              => last'.value = Cardinality(DOMAIN Map(dbm.Dict))
        /\ (last'.op = "keys" /\ DbmKeys)
              => last'.value = DOMAIN Map(dbm.Dict)]_vars

\* a get returned the value of the one key the store holds
C14_Witness ==
    /\ last.op = "get"
    /\ last.outcome = "return"
    /\ last.value = "v2"
    /\ dbm.cx
    /\ dbm.flag = "rwc"
    /\ DOMAIN dbm.Dict = {"k1"}

\* C15: when optimize_database() returns, the handle has the keys it had, and
\* a get of each of them returns the value a get returned before.
C15_OptimizeKeepsValues ==
    [][(last'.op = "optimize" /\ last'.outcome = "return")
        => /\ DOMAIN dbm'.Dict = DOMAIN dbm.Dict
           /\ \A k \in DOMAIN dbm.Dict : \A before, after \in WrongDictOutcomes :
                 zstd_decompress(dbm'.compressor, dbm'.Dict[k], after)
                     = zstd_decompress(dbm.compressor, dbm.Dict[k], before)]_vars

\* optimize_database() returned on a store of two keys with different
\* values, whose rows and dictionary are now in the file
C15_Witness ==
    /\ last.op = "optimize"
    /\ last.outcome = "return"
    /\ dbm.cx
    /\ DOMAIN dbm.Dict = StoreKeys
    /\ dbm.Dict["k1"].zstd # dbm.Dict["k2"].zstd
    /\ dbm.zstd_dict.trained = Map(dbm.Dict)
    /\ store_file.zstd_dict = dbm.zstd_dict

\* the operations of a handle other than open and close
HandleOps == {"get", "set", "delete", "len", "keys", "optimize"}

\* C16: on a closed handle a close returns and changes nothing, and get, set,
\* delete, len, keys() and optimize_database() each raise the error of a
\* closed handle and leave the handle and the file as they were.
C16_ClosedHandle ==
    [][(dbm.flag # "none" /\ ~dbm.cx /\ last'.op \in HandleOps \cup {"close"})
        => /\ UNCHANGED storeVars
           /\ last'.outcome = IF last'.op = "close" THEN "return" ELSE ERR_CLOSED]_vars

\* a set on a closed handle, of a key the file has not, raised
C16_Witness ==
    /\ last.op = "set"
    /\ last.arg = "k2"
    /\ last.outcome = ERR_CLOSED
    /\ dbm.flag = "rwc"
    /\ ~dbm.cx
    /\ DOMAIN store_file.Dict = {"k1"}

\* C17: an open with "r" or "w" of a path that names no file fails and
\* creates none; "c" creates the file when there is none and otherwise keeps
\* every record, which the handle then sees; "n" always gives a store without
\* records; any other flag raises ValueError and leaves the file alone.
C17_OpenModes ==
    [][last'.op = "open" =>
        /\ (last'.arg \in {"r", "w"} /\ ~store_file.exists)
              => /\ last'.outcome = "error"
                 /\ UNCHANGED storeVars
        /\ last'.arg = "c"
              => /\ last'.outcome = "return"
                 /\ dbm'.cx /\ store_file'.exists
                 /\ store_file.exists => store_file'.Dict = store_file.Dict
                 /\ dbm'.Dict = store_file'.Dict
        /\ last'.arg = "n"
              => /\ last'.outcome = "return"
                 /\ dbm'.cx /\ store_file'.exists
                 /\ store_file'.Dict = EmptyDict
                 /\ dbm'.Dict = EmptyDict
        /\ last'.arg \notin {"r", "w", "c", "n"}
              => /\ last'.outcome = "ValueError"
                 /\ UNCHANGED storeVars]_vars

\* an open with "n" returned a store without records or dictionary
C17_Witness ==
    /\ last.op = "open"
    /\ last.arg = "n"
    /\ last.outcome = "return"
    /\ dbm.cx
    /\ store_file.exists
    /\ store_file.Dict = EmptyDict
    /\ store_file.zstd_dict = NoDict

\* ------------------------------------------- threads calling the decorator
\* wrapper has no lock: a thread can be switched out between any two of its
\* calls on the memory tier and the cache table.  pc names the call a thread
\* makes next.

\* arguments the threads call the decorated function with
ThreadArgs == {1, 2}

\* sqlite3.connect without check_same_thread=False: the connection refuses
\* every thread but the one that made it (ProgrammingError, raised by
\* _execute as error and by _SqlCacheDatabase._execute as SqlCacheError)
same_thread(t) == t = Owner

ThreadFrame == UNCHANGED <<now, cache_type, ttl, max_size, cx, committed,
                           miss_run, probe, cache_file, storeVars, handles, stores, shelf>>

ThreadKey(t) == generate_key(FuncName, threads[t].arg)

\* the call of thread t ends
Finish(t, outcome, value, source) ==
    /\ threads' = [threads EXCEPT ![t].pc = "done", ![t].outcome = outcome,
                                  ![t].value = value]
    /\ last' = Outcome("call", threads[t].arg, outcome, value,
                       threads[t].executed, source)

\* wrapper(x) entered: if cache_key in self._memory_cache
ThreadCall(t, x) ==
    /\ threads[t].pc = "idle"
    /\ LET hit == mem_contains(cache_type, memory, generate_key(FuncName, x), now) IN
       threads' = [threads EXCEPT ![t] = [IdleThread EXCEPT
                       !.pc = IF hit THEN "read" ELSE "get",
                       !.arg = x, !.missed = ~hit]]
    /\ UNCHANGED <<table, in_transaction, memory, call_count, last>>
    /\ ThreadFrame

\* return self._memory_cache[cache_key]; Cache.__getitem__ raises KeyError
\* for a key that is not (or, in a TTLCache, no longer) held
ThreadRead(t) ==
    /\ threads[t].pc = "read"
    /\ IF mem_contains(cache_type, memory, ThreadKey(t), now)
       THEN /\ memory' = mem_touch(memory, ThreadKey(t))
            /\ Finish(t, "return", mem_value(memory, ThreadKey(t)), "memory")
       ELSE /\ UNCHANGED memory
            /\ Finish(t, "KeyError", None, "memory")
    /\ UNCHANGED <<table, in_transaction, call_count>>
    /\ ThreadFrame

\* cached_value = self._db.get(cache_key, self.ttl)
ThreadGet(t) ==
    /\ threads[t].pc = "get"
    /\ IF ~cx \/ ~same_thread(t)
       THEN /\ Finish(t, "SqlCacheError", None, "none")
            /\ UNCHANGED <<table, in_transaction>>
       ELSE LET g == db_get(table, ThreadKey(t), ttl, now) IN
            /\ \A i \in DOMAIN g.rows : g.rows[i].access_count <= MaxCount
            /\ table' = g.rows
            /\ in_transaction' = (in_transaction \/ g.hit)
            /\ threads' = [threads EXCEPT
                              ![t].pc = IF g.value # None THEN "fill" ELSE "func",
                              ![t].value = g.value]
            /\ UNCHANGED last
    /\ UNCHANGED <<memory, call_count>>
    /\ ThreadFrame

\* self._memory_cache[cache_key] = cached_value; return cached_value
ThreadFill(t) ==
    /\ threads[t].pc = "fill"
    /\ memory' = mem_setitem(cache_type, ttl, max_size, memory, ThreadKey(t),
                             threads[t].value, now)
    /\ Finish(t, "return", threads[t].value, "disk")
    /\ UNCHANGED <<table, in_transaction, call_count>>
    /\ ThreadFrame

\* result = func(*args, **kwargs)
ThreadFunc(t) ==
    /\ threads[t].pc = "func"
    /\ call_count < MaxCalls
    /\ call_count' = call_count + 1
    /\ \E out \in Outcomes(now) :
          IF out = Raise
          THEN /\ threads' = [threads EXCEPT ![t].pc = "done", ![t].outcome = "raise",
                                            ![t].value = None, ![t].executed = TRUE]
               /\ last' = Outcome("call", threads[t].arg, "raise", None, TRUE, "compute")
          ELSE /\ threads' = [threads EXCEPT ![t].pc = "set", ![t].value = out,
                                            ![t].executed = TRUE]
               /\ UNCHANGED last
    /\ UNCHANGED <<table, in_transaction, memory>>
    /\ ThreadFrame

\* self._db.set(cache_key, result)
ThreadSet(t) ==
    /\ threads[t].pc = "set"
    /\ IF ~cx \/ ~same_thread(t)
       THEN /\ Finish(t, "SqlCacheError", None, "none")
            /\ UNCHANGED <<table, in_transaction>>
       ELSE /\ table' = db_set(table, ThreadKey(t), threads[t].value, now)
            /\ in_transaction' = TRUE
            /\ threads' = [threads EXCEPT ![t].pc = "store"]
            /\ UNCHANGED last
    /\ UNCHANGED <<memory, call_count>>
    /\ ThreadFrame

\* self._memory_cache[cache_key] = result
ThreadStore(t) ==
    /\ threads[t].pc = "store"
    /\ memory' = mem_setitem(cache_type, ttl, max_size, memory, ThreadKey(t),
                             threads[t].value, now)
    /\ threads' = [threads EXCEPT ![t].pc = "cleanup"]
    /\ UNCHANGED <<table, in_transaction, call_count, last>>
    /\ ThreadFrame

\* self._cleanup(); return result
ThreadCleanup(t) ==
    /\ threads[t].pc = "cleanup"
    /\ IF ~cx \/ ~same_thread(t)
       THEN /\ Finish(t, "SqlCacheError", None, "none")
            /\ UNCHANGED <<table, in_transaction>>
       ELSE /\ table' = cleanup(cache_type, ttl, max_size, table, now)
            /\ in_transaction' = TRUE
            /\ Finish(t, "return", threads[t].value, "compute")
    /\ UNCHANGED <<memory, call_count>>
    /\ ThreadFrame

\* the caller has the outcome; the thread may call again
ThreadReturn(t) ==
    /\ threads[t].pc = "done"
    /\ threads' = [threads EXCEPT ![t] = IdleThread]
    /\ UNCHANGED <<table, in_transaction, memory, call_count, last>>
    /\ ThreadFrame

NextThreads ==
    \/ Tick
    \/ \E t \in Threads : \E x \in ThreadArgs : ThreadCall(t, x)
    \/ \E t \in Threads : ThreadRead(t)
    \/ \E t \in Threads : ThreadGet(t)
    \/ \E t \in Threads : ThreadFill(t)
    \/ \E t \in Threads : ThreadFunc(t)
    \/ \E t \in Threads : ThreadSet(t)
    \/ \E t \in Threads : ThreadStore(t)
    \/ \E t \in Threads : ThreadCleanup(t)
    \/ \E t \in Threads : ThreadReturn(t)

\* a ttl cache whose entries expire, or an lru cache, each of one entry
InitThreads ==
    /\ \/ SqlCacheNew("ttl", 1, 1)
       \/ SqlCacheNew("lru", NoTtl, 1)
    /\ OthersIdle

SpecThreads == InitThreads /\ [][NextThreads]_vars

\* C18: a call of the decorated function made by any thread ends without an
\* error of the cache: it returns, or the wrapped function itself raised.
C18_ThreadSafety ==
    \A t \in Threads :
        threads[t].pc = "done" => threads[t].outcome \in {"return", "raise"}

\* thread u is in a call for the key of thread t, and missed the memory tier
ConcurrentMiss(t, u) ==
    /\ u # t
    /\ threads[u].pc # "idle"
    /\ threads[u].arg = threads[t].arg
    /\ threads[u].missed

\* rows of a table that have the key
RowsOf(rows, key) == {i \in DOMAIN rows : rows[i].key = key}

\* C19: of two concurrent calls with one key that both missed the memory
\* tier, each that finds no row in the table goes on to execute the wrapped
\* function; and each write of a result leaves exactly one row for the key,
\* holding the result written last.
C19_BothExecuteAndWrite ==
    [][\A t \in Threads :
        /\ (/\ threads[t].pc = "get"
            /\ threads'[t].pc # "get"
            /\ \E u \in Threads : ConcurrentMiss(t, u)
            /\ ~db_get(table, ThreadKey(t), ttl, now).hit)
              => threads'[t].pc = "func"
        /\ (threads[t].pc = "set" /\ threads'[t].pc # "set")
              => /\ threads'[t].pc = "store"
                 /\ Cardinality(RowsOf(table', ThreadKey(t))) = 1
                 /\ \A i \in RowsOf(table', ThreadKey(t)) :
                       table'[i].value = compress(serialize(threads[t].value))]_vars

\* C20: a get that decompresses a row compressed under a dictionary with a
\* compressor bound to another dictionary, or to none, raises ZstdError; it
\* returns no bytes.
C20_WrongDictionaryDetected ==
    [][\A k \in StoreKeys : \A w \in WrongDictOutcomes :
          (/\ last'.op = "get"
           /\ dbm.cx
           /\ k \in DOMAIN dbm.Dict
           /\ dbm.Dict[k].dict # NoDict
           /\ dbm.Dict[k].dict # dbm.compressor
           /\ DbmGet(k, w))
              => last'.outcome = "ZstdError"]_vars

\* ------------------------------------------ two handles sharing the store
\* Each handle is opened for reading and writing (both set values) with
\* autocommit=True, so every statement of one is seen by the other.

ShareFlags == {"w", "c"}

\* the key the two handles set and get
ShareKeys == {"k1"}

ShareFrame == UNCHANGED <<now, cache_type, ttl, max_size, cx, committed, table,
                          in_transaction, memory, call_count, miss_run,
                          probe, cache_file, threads, dbm,
                          stores, shelf>>

\* open(filename, flag) for handle h: the compressor is built from the
\* dictionary the file holds at this moment
ShareOpen(h, flag) ==
    /\ ~handles[h].cx
    /\ IF uri_mode(flag) # "rwc" /\ ~store_file.exists
       THEN /\ last' = Outcome("open", flag, "error", None, FALSE, "none")
            /\ UNCHANGED <<store_file, handles, stores, shelf>>
       ELSE LET file == IF store_file.exists THEN store_file
                        ELSE [exists |-> TRUE, Dict |-> EmptyDict, zstd_dict |-> NoDict]
            IN  /\ store_file' = file
                /\ handles' = [handles EXCEPT ![h] =
                                  [cx |-> TRUE, flag |-> uri_mode(flag),
                                   compressor |-> file.zstd_dict]]
                /\ last' = Outcome("open", flag, "return", None, FALSE, "none")
    /\ ShareFrame

\* h[k] = v
ShareSet(h, k, v) ==
    /\ handles[h].flag # "none"
    /\ IF closed(handles[h]) \/ handles[h].flag = "ro"
       THEN /\ last' = Outcome("set", k,
                               IF closed(handles[h]) THEN ERR_CLOSED ELSE "error",
                               None, FALSE, "none")
            /\ UNCHANGED store_file
       ELSE /\ store_file' = [store_file EXCEPT !.Dict =
                                 put(@, k, zstd_compress(handles[h].compressor, v))]
            /\ last' = Outcome("set", k, "return", None, FALSE, "none")
    /\ UNCHANGED handles
    /\ ShareFrame

\* h[k]
ShareGet(h, k, w) ==
    /\ handles[h].flag # "none"
    /\ last' = IF closed(handles[h])
               THEN Outcome("get", k, ERR_CLOSED, NoBytes, FALSE, "none")
               ELSE IF k \notin DOMAIN store_file.Dict
               THEN Outcome("get", k, "KeyError", NoBytes, FALSE, "none")
               ELSE LET value == zstd_decompress(handles[h].compressor,
                                                 store_file.Dict[k], w) IN
                    IF value = "ZstdError"
                    THEN Outcome("get", k, "ZstdError", NoBytes, FALSE, "none")
                    ELSE Outcome("get", k, "return", value, FALSE, "none")
    /\ UNCHANGED <<store_file, handles, stores, shelf>>
    /\ ShareFrame

\* h.optimize_database(): only the handle that runs it gets the new compressor
ShareOptimize(h, trains, w) ==
    /\ handles[h].flag # "none"
    /\ IF closed(handles[h])
       THEN /\ last' = Outcome("optimize", "", ERR_CLOSED, None, FALSE, "none")
            /\ UNCHANGED <<store_file, handles, stores, shelf>>
       ELSE LET samples == [k \in DOMAIN store_file.Dict |->
                               zstd_decompress(handles[h].compressor,
                                               store_file.Dict[k], w)]
                zstd_dict == optimize_dict(samples)
            IN  IF \/ \E k \in DOMAIN samples : samples[k] = "ZstdError"
                   \/ DOMAIN samples = {}
                   \/ ~trains
                THEN /\ last' = Outcome("optimize", "", "ZstdError", None, FALSE, "none")
                     /\ UNCHANGED <<store_file, handles, stores, shelf>>
                ELSE /\ handles' = [handles EXCEPT ![h].compressor = zstd_dict]
                     /\ IF handles[h].flag = "ro"
                        THEN /\ last' = Outcome("optimize", "", "error", None, FALSE, "none")
                             /\ UNCHANGED store_file
                        ELSE /\ store_file' = [store_file EXCEPT
                                                  !.Dict = rewrite(zstd_dict, samples),
                                                  !.zstd_dict = zstd_dict]
                             /\ last' = Outcome("optimize", "", "return", None, FALSE, "none")
    /\ ShareFrame

\* h.close()
ShareClose(h) ==
    /\ handles[h].flag # "none"
    /\ handles' = [handles EXCEPT ![h].cx = FALSE]
    /\ last' = Outcome("close", "", "return", None, FALSE, "none")
    /\ UNCHANGED store_file
    /\ ShareFrame

InitShare ==
    /\ SqlCacheNew("lru", NoTtl, 1)
    /\ OthersIdle

NextShare ==
    \/ \E h \in Handles : \E flag \in ShareFlags : ShareOpen(h, flag)
    \/ \E h \in Handles : \E k \in ShareKeys : \E v \in StoreValues : ShareSet(h, k, v)
    \/ \E h \in Handles : \E k \in ShareKeys : \E w \in WrongDictOutcomes : ShareGet(h, k, w)
    \/ \E h \in Handles : \E trains \in BOOLEAN : \E w \in WrongDictOutcomes :
           ShareOptimize(h, trains, w)
    \/ \E h \in Handles : ShareClose(h)

SpecShare == InitShare /\ [][NextShare]_vars

\* C21: with two handles on one file, a get through either open handle of a
\* key the file holds returns the value last set for it, whichever handle set
\* it and whichever handle has run optimize_database() since.
C21_SharedFile ==
    [][\A h \in Handles : \A k \in ShareKeys : \A w \in WrongDictOutcomes :
          (/\ last'.op = "get"
           /\ handles[h].cx
           /\ k \in DOMAIN store_file.Dict
           /\ ShareGet(h, k, w))
              => /\ last'.outcome = "return"
                 /\ last'.value = store_file.Dict[k].zstd]_vars

\* the row a table has for a key
RowOf(rows, key) == rows[IndexOf(rows, key)]

\* C22: a call that is answered from the cache (it returns without executing
\* the wrapped function), by the memory tier or by the disk tier, adds one to
\* access_count and sets last_access to the current time in the row the table
\* has for its key.
C22_HitBookkeeping ==
    [][\A x \in Args :
          (/\ last'.op = "call"
           /\ last'.arg = x
           /\ last'.outcome = "return"
           /\ ~last'.executed
           /\ HasKey(table, KeyOf(x))
           /\ wrapper(x))
              => /\ HasKey(table', KeyOf(x))
                 /\ RowOf(table', KeyOf(x)).access_count
                        = RowOf(table, KeyOf(x)).access_count + 1
                 /\ RowOf(table', KeyOf(x)).last_access = now]_vars

\* C23: a get that fetches a row adds exactly one to its access_count and
\* sets its last_access to the current time, and leaves its value, its
\* created_at and every other row as they were; a get that fetches none (no
\* row for the key, or one too old for the ttl) leaves the table as it was.
C23_GetBookkeeping ==
    [][\A x \in Args : \A T \in GetTtls :
          (last'.op = "get" /\ DbGet(x, T)) =>
              IF \E r \in Rows(table) : db_match(r, KeyOf(x), T, now)
              THEN /\ Len(table') = Len(table)
                   /\ \A i \in DOMAIN table :
                         IF table[i].key = KeyOf(x)
                         THEN table'[i] = [table[i] EXCEPT
                                              !.access_count = @ + 1,
                                              !.last_access = now]
                         ELSE table'[i] = table[i]
              ELSE table' = table]_vars

\* a get fetched a row written earlier, next to a row of another key
C23_Witness ==
    /\ last.op = "get"
    /\ last.value # None
    /\ Len(table) = 2
    /\ \E r \in Rows(table) :
          r.access_count = 2 /\ r.last_access > r.created_at
    /\ \E r \in Rows(table) : r.access_count = 1

\* C24: cleanup_expired(ttl) deletes the rows with created_at < now - ttl,
\* whatever their last_access and access_count, and no other; the rows that
\* stay are as they were, in the order they had.
C24_CleanupExpired ==
    [][\A T \in ExpireTtls :
          (last'.op = "cleanup_expired" /\ DbCleanupExpired(T)) =>
              /\ Rows(table') = {r \in Rows(table) : r.created_at >= now - T}
              /\ Len(table') = Cardinality(Rows(table'))
              /\ \A i, j \in DOMAIN table' :
                    i < j => \E a, b \in DOMAIN table :
                                a < b /\ table[a] = table'[i] /\ table[b] = table'[j]]_vars

\* a sweep has left one row, read since it was written and young enough
C24_Witness ==
    /\ last.op = "cleanup_expired"
    /\ now = MaxTime
    /\ Len(table) = 1
    /\ table[1].created_at = now - 1
    /\ table[1].access_count > 1

\* thread t is in an error of the cache, which ends its call where it is
Failed(t) ==
    threads'[t].pc = "done" /\ threads'[t].outcome \in {"KeyError", "SqlCacheError"}

\* C25: the steps of one call.  The table is consulted only after the memory
\* tier missed; the wrapped function is executed only after the table also
\* had no row to fetch; a call that fetched a row stores its value in the
\* memory tier and returns, without executing the function and without a
\* sweep; a call that executed the function writes the table, then the
\* memory tier, then sweeps, then returns.
C25_CallStateMachine ==
    [][\A t \in Threads :
        LET pc == threads[t].pc
            next == threads'[t].pc
            key == ThreadKey(t)
        IN  next # pc =>
            \/ Failed(t)
            \/ /\ pc = "idle"
               /\ next = IF mem_contains(cache_type, memory,
                                         generate_key(FuncName, threads'[t].arg), now)
                         THEN "read" ELSE "get"
               /\ UNCHANGED <<table, memory, call_count>>
            \/ /\ pc = "read" /\ next = "done"
               /\ UNCHANGED <<table, call_count>>
            \/ /\ pc = "get"
               /\ next = IF db_get(table, key, ttl, now).hit THEN "fill" ELSE "func"
               /\ UNCHANGED <<memory, call_count>>
            \/ /\ pc = "fill" /\ next = "done"
               /\ threads'[t].outcome = "return"
               /\ ~threads'[t].executed
               /\ mem_contains(cache_type, memory', key, now)
               /\ mem_value(memory', key) = threads'[t].value
               /\ UNCHANGED <<table, call_count>>
            \/ /\ pc = "func" /\ next \in {"set", "done"}
               /\ threads'[t].executed
               /\ next = "done" => threads'[t].outcome = "raise"
               /\ UNCHANGED <<table, memory>>
            \/ /\ pc = "set" /\ next = "store"
               /\ HasKey(table', key)
               /\ UNCHANGED <<memory, call_count>>
            \/ /\ pc = "store" /\ next = "cleanup"
               /\ UNCHANGED <<table, call_count>>
            \/ /\ pc = "cleanup" /\ next = "done"
               /\ threads'[t].outcome = "return"
               /\ UNCHANGED <<memory, call_count>>
            \/ pc = "done" /\ next = "idle"]_vars

\* C26: the memory tier never holds more than max_size entries, under either
\* policy; and under policy "lru" the table holds at most max_size rows
\* whenever a call of the decorated function has returned.
C26_SizeBounds ==
    /\ Len(memory) <= max_size
    /\ (cache_type = "lru" /\ last.op = "call" /\ last.outcome = "return")
          => Len(table) <= max_size

\* an lru cache of two entries is full in both tiers after a third execution
C26_Witness ==
    /\ cache_type = "lru"
    /\ max_size = 2
    /\ last.op = "call"
    /\ last.outcome = "return"
    /\ last.executed
    /\ call_count = 3
    /\ Len(table) = 2
    /\ Len(memory) = 2
    /\ KeysOf(table) = {memory[i].key : i \in DOMAIN memory}

\* C27: under policy "lru" with ttl = T, no call returns a value that was
\* computed more than T ago.
C27_TtlUnderLru ==
    (/\ cache_type = "lru"
     /\ ttl # NoTtl
     /\ last.op = "call"
     /\ last.outcome = "return"
     /\ last.value # None) => now - last.value <= ttl

\* ------------------------------------ several functions behind one SqlCache
\* The functions decorated by one SqlCache, by qualified name: two modules
\* each define a function compute, and one of them a function other.
Funcs == {"a.compute", "b.compute", "b.other"}

\* func.__name__
func_name(fn) ==
    CASE fn = "a.compute" -> "compute"
      [] fn = "b.compute" -> "compute"
      [] fn = "b.other" -> "other"

\* what each function returns, which tells the functions apart
result_of(fn) ==
    CASE fn = "a.compute" -> 1
      [] fn = "b.compute" -> 2
      [] fn = "b.other" -> 3

\* wrapper of the decorated function fn, one call with positional argument x
CallFunction(fn, x) ==
    LET key == generate_key(func_name(fn), x)
        g == db_get(table, key, ttl, now)
    IN  /\ IF mem_contains(cache_type, memory, key, now)
           THEN WrapperMemoryHit(x, key)
           ELSE /\ \A i \in DOMAIN g.rows : g.rows[i].access_count <= MaxCount
                /\ IF g.value # None
                   THEN WrapperDiskHit(x, key, g)
                   ELSE WrapperCompute(x, key, g, result_of(fn))
        /\ probe' = [op |-> "call", func |-> fn]
        /\ UNCHANGED <<now, cache_type, ttl, max_size, cx, committed, miss_run,
                       cache_file, storeVars, threads, handles, stores, shelf>>

NextFuncs == \E fn \in Funcs : \E x \in Args : CallFunction(fn, x)

SpecFuncs == Init /\ [][NextFuncs]_vars

\* C28: a call of a decorated function returns a value that function computed,
\* never one computed by another function that shares the cache.
C28_FunctionIdentity ==
    (probe.op = "call" /\ last.op = "call" /\ last.outcome = "return")
        => last.value = result_of(probe.func)

\* ------------------------------------- optimize_database, statement by step
\* On a handle opened as DbfilenameShelf opens it (autocommit=True) every
\* statement of optimize_database is committed on its own, so the process can
\* stop between any two of them.  probe holds the locals of the running call:
\* the samples read, the dictionary trained and the rows still to be written.

\* the running call of optimize_database
Optimizing == probe.op = "optimize"

CrashFrame == UNCHANGED <<now, cache_type, ttl, max_size, cx, committed, table,
                          in_transaction, memory, call_count, miss_run,
                          cache_file, threads, handles, stores, shelf>>

\* samples, zstd_dict and rows are computed and the compressor replaced
OptimizeBegin(trains, w) ==
    /\ ~Optimizing
    /\ dbm.cx /\ dbm.flag # "ro" /\ dbm.autocommit
    /\ LET samples == [k \in DOMAIN dbm.Dict |->
                          zstd_decompress(dbm.compressor, dbm.Dict[k], w)]
           zstd_dict == optimize_dict(samples)
       IN  IF \/ \E k \in DOMAIN samples : samples[k] = "ZstdError"
              \/ DOMAIN samples = {}
              \/ ~trains
           THEN /\ last' = Outcome("optimize", "", "ZstdError", None, FALSE, "none")
                /\ UNCHANGED <<probe, dbm>>
           ELSE /\ probe' = [op |-> "optimize", samples |-> samples,
                             zstd_dict |-> zstd_dict, todo |-> DOMAIN samples]
                /\ dbm' = [dbm EXCEPT !.compressor = zstd_dict]
                /\ last' = Outcome("optimize", "", "running", None, FALSE, "none")
    /\ UNCHANGED store_file
    /\ CrashFrame

\* self.__setitem__(k, v) for one of the rows
OptimizeRewrite(k) ==
    /\ Optimizing
    /\ k \in probe.todo
    /\ LET D == put(dbm.Dict, k, zstd_compress(dbm.compressor, probe.samples[k])) IN
       /\ dbm' = [dbm EXCEPT !.Dict = D]
       /\ store_file' = [store_file EXCEPT !.Dict = D]
    /\ probe' = [probe EXCEPT !.todo = @ \ {k}]
    /\ last' = Outcome("optimize", k, "running", None, FALSE, "none")
    /\ CrashFrame

\* self._save_zstd_dict(zstd_dict); VACUUM; the call returns
OptimizeSave ==
    /\ Optimizing
    /\ probe.todo = {}
    /\ dbm' = [dbm EXCEPT !.zstd_dict = probe.zstd_dict]
    /\ store_file' = [store_file EXCEPT !.zstd_dict = probe.zstd_dict]
    /\ probe' = NoProbe
    /\ last' = Outcome("optimize", "", "return", None, FALSE, "none")
    /\ CrashFrame

\* the process stops: the handle is gone, the file is as the statements
\* committed so far left it
ProcessStops ==
    /\ dbm.cx
    /\ dbm' = [dbm EXCEPT !.cx = FALSE]
    /\ probe' = NoProbe
    /\ last' = Outcome("stop", "", "none", None, FALSE, "none")
    /\ UNCHANGED store_file
    /\ CrashFrame

InitCrash ==
    /\ SqlCacheNew("lru", NoTtl, 1)
    /\ OthersIdle

NextCrash ==
    \/ /\ ~Optimizing
       /\ \/ DbmOpen("c", TRUE)
          \/ \E k \in StoreKeys : \E v \in StoreValues : DbmSet(k, v)
          \/ \E k \in StoreKeys : \E w \in WrongDictOutcomes : DbmGet(k, w)
          \/ \E k \in StoreKeys : DbmDelete(k)
          \/ DbmClose
    \/ \E trains \in BOOLEAN : \E w \in WrongDictOutcomes : OptimizeBegin(trains, w)
    \/ \E k \in StoreKeys : OptimizeRewrite(k)
    \/ OptimizeSave
    \/ ProcessStops

SpecCrash == InitCrash /\ [][NextCrash]_vars

\* the rows the running call has written again
Rewritten == DOMAIN probe.samples \ probe.todo

\* some outcome of reading row k of the file with the dictionary of the file
\* is not the bytes the row was made from
NotDecodable(file, k) ==
    \E w \in WrongDictOutcomes :
        zstd_decompress(file.zstd_dict, file.Dict[k], w) # file.Dict[k].zstd

\* the dictionary is persisted only after the last row was written again
SavedLast ==
    (Optimizing /\ store_file'.zstd_dict # store_file.zstd_dict) => probe.todo = {}

\* C29, as stated: optimize_database persists the new dictionary only after
\* the last rewrite, and whenever the process stops after a row was written
\* again and before that, the file holds a row that the dictionary of the
\* file does not decode to its value.
C29_InterruptedAlwaysBreaks ==
    [][/\ SavedLast
       /\ (last'.op = "stop" /\ Optimizing /\ Rewritten # {})
             => \E k \in DOMAIN store_file'.Dict : NotDecodable(store_file', k)]_vars

\* C29, amended: the same, when the dictionary trained differs from the one
\* the file holds; then every row written again is such a row.
C29_InterruptedOptimize ==
    [][/\ SavedLast
       /\ (/\ last'.op = "stop"
           /\ Optimizing
           /\ probe.zstd_dict # store_file.zstd_dict)
             => \A k \in Rewritten : NotDecodable(store_file', k)]_vars

\* the process stopped and left one row under the dictionary of the file and
\* one under a dictionary the file does not hold
C29_Witness ==
    /\ last.op = "stop"
    /\ ~dbm.cx
    /\ store_file.zstd_dict # NoDict
    /\ DOMAIN store_file.Dict = StoreKeys
    /\ store_file.Dict["k1"].dict = store_file.zstd_dict
    /\ store_file.Dict["k2"].dict # store_file.zstd_dict
    /\ store_file.Dict["k2"].dict # NoDict

\* C30: when a handle is closed, the file holds the keys the handle had, each
\* decoding under the dictionary of the file to the value last set for it;
\* and a handle that opens an existing file with "r", "w" or "c" sees those
\* rows and binds its compressor to that dictionary.
C30_ReopenDecodes ==
    [][/\ (last'.op = "close" /\ dbm.cx)
             => /\ DOMAIN store_file'.Dict = DOMAIN dbm.Dict
                /\ \A k \in DOMAIN dbm.Dict : \A w \in WrongDictOutcomes :
                      zstd_decompress(store_file'.zstd_dict, store_file'.Dict[k], w)
                          = Map(dbm.Dict)[k]
       /\ (/\ last'.op = "open"
           /\ last'.outcome = "return"
           /\ last'.arg \in {"r", "w", "c"}
           /\ store_file.exists)
             => /\ dbm'.Dict = store_file.Dict
                /\ dbm'.compressor = store_file.zstd_dict]_vars

\* ------------------------------------- two cache stores on one cache file
\* Each handle is built by _SqlCacheDatabase(cache_path): its connection is
\* opened by _Database with the defaults of sqlite3.connect, so the first
\* INSERT, UPDATE or DELETE opens a transaction that takes the write lock of
\* the file and nothing commits it.  A statement that needs the lock while
\* another connection holds it waits for busy_timeout and then fails with
\* "database is locked".
WriterArgs == {1, 2}
WriterValues == {1, 2}
ERR_LOCKED == "database is locked"

\* another open handle holds the write lock
locked_out(h) == \E g \in Handles \ {h} : stores[g].cx /\ stores[g].writer

\* the rows of table cache that handle h reads
rows_seen(all, rows, h) == IF all[h].writer THEN all[h].cache ELSE rows

WritersFrame == UNCHANGED <<now, cache_type, ttl, max_size, cx, committed, table,
                            in_transaction, memory, call_count, miss_run,
                            cache_file, storeVars, threads, handles, shelf>>

\* _SqlCacheDatabase(cache_path)
StoresOpen(h) ==
    /\ ~stores[h].cx
    /\ stores' = [stores EXCEPT ![h] = [NoStore EXCEPT !.cx = TRUE]]
    /\ probe' = [op |-> "open", handle |-> h, key |-> None, value |-> None]
    /\ last' = Outcome("store_open", -1, "return", None, FALSE, "none")
    /\ WritersFrame

\* _SqlCacheDatabase.set(key, value) through handle h
StoresSet(h, x, value) ==
    /\ stores[h].cx
    /\ probe' = [op |-> "set", handle |-> h, key |-> x, value |-> value]
    /\ IF locked_out(h)
       THEN /\ stores' = [stores EXCEPT ![h].in_transaction = TRUE]
            /\ last' = Outcome("store_set", -1, ERR_LOCKED, None, FALSE, "none")
       ELSE /\ stores' = [stores EXCEPT
                  ![h].in_transaction = TRUE,
                  ![h].writer = TRUE,
                  ![h].cache = db_set(rows_seen(stores, committed, h),
                                      generate_key(FuncName, x), value, now)]
            /\ last' = Outcome("store_set", -1, "return", None, FALSE, "none")
    /\ WritersFrame

\* _SqlCacheDatabase.get(key) through handle h; the UPDATE of a fetched row
\* needs the write lock
StoresGet(h, x) ==
    LET g == db_get(rows_seen(stores, committed, h),
                    generate_key(FuncName, x), NoTtl, now) IN
    /\ stores[h].cx
    /\ \A i \in DOMAIN g.rows : g.rows[i].access_count <= MaxCount
    /\ probe' = [op |-> "get", handle |-> h, key |-> x, value |-> None]
    /\ IF g.hit /\ locked_out(h)
       THEN /\ stores' = [stores EXCEPT ![h].in_transaction = TRUE]
            /\ last' = Outcome("store_get", -1, ERR_LOCKED, None, FALSE, "none")
       ELSE /\ stores' = [stores EXCEPT
                  ![h].in_transaction = @ \/ g.hit,
                  ![h].writer = @ \/ g.hit,
                  ![h].cache = IF g.hit THEN g.rows ELSE @]
            /\ last' = Outcome("store_get", -1, "return", g.value, FALSE, "disk")
    /\ WritersFrame

\* _SqlCacheDatabase.close(): the open transaction is discarded
StoresClose(h) ==
    /\ stores[h].cx
    /\ stores' = [stores EXCEPT ![h] = NoStore]
    /\ probe' = [op |-> "close", handle |-> h, key |-> None, value |-> None]
    /\ last' = Outcome("store_close", -1, "return", None, FALSE, "none")
    /\ WritersFrame

InitWriters == SqlCacheNew("lru", NoTtl, 1) /\ OthersIdle

NextWriters ==
    \/ Tick
    \/ \E h \in Handles : StoresOpen(h)
    \/ \E h \in Handles : \E x \in WriterArgs : \E value \in WriterValues :
           StoresSet(h, x, value)
    \/ \E h \in Handles : \E x \in WriterArgs : StoresGet(h, x)
    \/ \E h \in Handles : StoresClose(h)

SpecWriters == InitWriters /\ [][NextWriters]_vars

\* C31: when two cache stores are open on one file and one of them has
\* completed a set, a set through the other returns, and a get of that key
\* through the first then finds the value written.
C31_SecondWriterSucceeds ==
    [][(/\ last'.op = "store_set"
        /\ \E g \in Handles \ {probe'.handle} :
               stores[g].cx /\ stores[g].writer)
          => /\ last'.outcome = "return"
             /\ \A g \in Handles \ {probe'.handle} :
                   db_get(rows_seen(stores', committed', g),
                          generate_key(FuncName, probe'.key), NoTtl, now').value
                       = probe'.value]_vars

\* ====================================================== the mapping adapter
\* DbfilenameShelf of shelve.py over the persistent store, which it opens
\* with autocommit=True.  The values of the shelf are Python objects; one of
\* them cannot be pickled.
Unserializable == -3
ShelfValues == {1, 2, Unserializable}
ShelfFlags == {"c", "r"}

\* self.cache, a dict in insertion order: a sequence of entries
cache_keys(c) == {c[i].key : i \in DOMAIN c}
cache_value(c, k) == (CHOOSE e \in {c[i] : i \in DOMAIN c} : e.key = k).value
cache_put(c, k, v) ==
    IF k \in cache_keys(c)
    THEN [i \in DOMAIN c |-> IF c[i].key = k THEN [key |-> k, value |-> v] ELSE c[i]]
    ELSE c \o <<[key |-> k, value |-> v]>>
cache_del(c, k) == SelectSeq(c, LAMBDA e : e.key # k)

\* self.dict accepts a write
writable == shelf.dict = "open" /\ dbm.cx /\ dbm.flag # "ro"

\* how a write to self.dict fails
write_error == IF shelf.dict = "closed" THEN "ValueError" ELSE "error"

\* pickle.dumps(value) raises
unpicklable(v) == v = Unserializable

\* a write that keeps the row a key already has
dict_set_ignore(D, k, v) ==
    put_ignore(D, k, zstd_compress(dbm.compressor, serialize(v)))

\* self.dict[key] = self.serializer.serialize(value) on table D
dict_set(D, k, v) == put(D, k, zstd_compress(dbm.compressor, serialize(v)))

\* the value the shelf reads from table D
dict_value(D, k) == unserialize(zstd_decompress(dbm.compressor, D[k], "same"))

\* the store is written with autocommit: the file follows the handle
ShelfStore(D) ==
    /\ dbm' = [dbm EXCEPT !.Dict = D]
    /\ store_file' = [store_file EXCEPT !.Dict = D]

ShelfFrame == UNCHANGED <<now, cache_type, ttl, max_size, cx, committed, table,
                          in_transaction, memory, call_count, miss_run,
                          probe, cache_file, threads, handles, stores>>

\* open(filename, flag, writeback)
ShelfOpen(flag, writeback) ==
    /\ shelf.dict # "open"
    /\ IF uri_mode(flag) # "rwc" /\ ~store_file.exists
       THEN /\ last' = Outcome("shelf_open", flag, "error", None, FALSE, "none")
            /\ UNCHANGED <<storeVars, shelf>>
       ELSE LET file == IF store_file.exists THEN store_file
                        ELSE [exists |-> TRUE, Dict |-> EmptyDict, zstd_dict |-> NoDict]
            IN  /\ store_file' = file
                /\ dbm' = [cx |-> TRUE, flag |-> uri_mode(flag),
                           autocommit |-> TRUE, Dict |-> file.Dict,
                           zstd_dict |-> file.zstd_dict,
                           compressor |-> file.zstd_dict,
                           in_transaction |-> FALSE]
                /\ shelf' = [dict |-> "open", writeback |-> writeback, cache |-> << >>]
                /\ last' = Outcome("shelf_open", flag, "return", None, FALSE, "none")
    /\ ShelfFrame

\* Shelf.__getitem__(key): the cache answers first, then self.dict
ShelfGetitem(k) ==
    /\ shelf.dict # "none"
    /\ IF k \in cache_keys(shelf.cache)
       THEN /\ last' = Outcome("shelf_get", k, "return",
                               cache_value(shelf.cache, k), FALSE, "cache")
            /\ UNCHANGED shelf
       ELSE IF shelf.dict = "closed"
       THEN /\ last' = Outcome("shelf_get", k, "ValueError", None, FALSE, "none")
            /\ UNCHANGED shelf
       ELSE IF k \notin DOMAIN dbm.Dict
       THEN /\ last' = Outcome("shelf_get", k, "KeyError", None, FALSE, "none")
            /\ UNCHANGED shelf
       ELSE LET value == dict_value(dbm.Dict, k) IN
            /\ last' = Outcome("shelf_get", k, "return", value, FALSE, "dict")
            /\ shelf' = IF shelf.writeback
                        THEN [shelf EXCEPT !.cache = cache_put(@, k, value)]
                        ELSE shelf
    /\ UNCHANGED storeVars
    /\ ShelfFrame

\* Shelf.__setitem__(key, value): the cache is written first, then the value
\* is serialized and stored
ShelfSetitem(k, v) ==
    /\ shelf.dict # "none"
    /\ shelf' = IF shelf.writeback
                THEN [shelf EXCEPT !.cache = cache_put(@, k, v)]
                ELSE shelf
    /\ IF unpicklable(v)
       THEN /\ last' = Outcome("shelf_set", k, "PicklingError", v, FALSE, "none")
            /\ UNCHANGED storeVars
       ELSE IF ~writable
       THEN /\ last' = Outcome("shelf_set", k, write_error, v, FALSE, "none")
            /\ UNCHANGED storeVars
       ELSE /\ last' = Outcome("shelf_set", k, "return", v, FALSE, "none")
            /\ ShelfStore(dict_set(dbm.Dict, k, v))
    /\ ShelfFrame

\* the caller changes in place the object a get returned: with writeback it
\* is the object the cache holds
ShelfMutate(k, v) ==
    /\ shelf.dict # "none"
    /\ k \in cache_keys(shelf.cache)
    /\ cache_value(shelf.cache, k) # v
    /\ shelf' = [shelf EXCEPT !.cache = cache_put(@, k, v)]
    /\ last' = Outcome("shelf_mutate", k, "return", v, FALSE, "cache")
    /\ UNCHANGED storeVars
    /\ ShelfFrame

\* Shelf.__delitem__(key): del self.dict[key], then the cache entry
ShelfDelitem(k) ==
    /\ shelf.dict # "none"
    /\ IF ~writable
       THEN /\ last' = Outcome("shelf_del", k, write_error, None, FALSE, "none")
            /\ UNCHANGED <<storeVars, shelf>>
       ELSE IF k \notin DOMAIN dbm.Dict
       THEN /\ last' = Outcome("shelf_del", k, "KeyError", None, FALSE, "none")
            /\ UNCHANGED <<storeVars, shelf>>
       ELSE /\ last' = Outcome("shelf_del", k, "return", None, FALSE, "none")
            /\ ShelfStore(remove(dbm.Dict, k))
            /\ shelf' = [shelf EXCEPT !.cache = cache_del(@, k)]
    /\ ShelfFrame

\* the entries sync writes before the first that fails: all of them when
\* none fails
RECURSIVE sync_count(_, _)
sync_count(c, ok) ==
    IF c = << >> \/ ~ok \/ unpicklable(Head(c).value) THEN 0
    ELSE 1 + sync_count(Tail(c), ok)

\* for key, entry in self.cache.items(): self[key] = entry, over the first
\* n entries
RECURSIVE sync_rows(_, _, _)
sync_rows(D, c, n) ==
    IF n = 0 THEN D
    ELSE sync_rows(dict_set(D, Head(c).key, Head(c).value), Tail(c), n - 1)

\* Shelf.sync(): what it stores, how many entries it wrote, whether it raised
\* and the shelf afterwards
sync(sh) ==
    IF sh.writeback /\ sh.cache # << >>
    THEN LET n == sync_count(sh.cache, writable)
             D == sync_rows(dbm.Dict, sh.cache, n)
         IN  IF n = Len(sh.cache)
             THEN [outcome |-> "return", Dict |-> D, count |-> n,
                   shelf |-> [sh EXCEPT !.writeback = TRUE, !.cache = << >>]]
             ELSE [outcome |-> IF unpicklable(sh.cache[n + 1].value)
                               THEN "PicklingError" ELSE write_error,
                   Dict |-> D, count |-> n,
                   shelf |-> [sh EXCEPT !.writeback = FALSE]]
    ELSE [outcome |-> "return", Dict |-> dbm.Dict, count |-> 0, shelf |-> sh]

\* Shelf.sync()
ShelfSync ==
    LET r == sync(shelf) IN
    /\ shelf.dict # "none"
    /\ shelf' = r.shelf
    /\ IF r.Dict = dbm.Dict THEN UNCHANGED storeVars ELSE ShelfStore(r.Dict)
    /\ last' = Outcome("shelf_sync", "", r.outcome, r.count, FALSE, "none")
    /\ ShelfFrame

\* Shelf.close(): sync, close the store, and self.dict = _ClosedDict() in
\* every case
ShelfClose ==
    LET r == sync(shelf) IN
    /\ shelf.dict # "none"
    /\ shelf' = [r.shelf EXCEPT !.dict = "closed"]
    /\ dbm' = [dbm EXCEPT !.cx = FALSE, !.Dict = r.Dict]
    /\ store_file' = [store_file EXCEPT !.Dict = r.Dict]
    /\ last' = Outcome("shelf_close", "", r.outcome, r.count, FALSE, "none")
    /\ ShelfFrame

InitShelf == SqlCacheNew("lru", NoTtl, 1) /\ OthersIdle

NextShelf ==
    \/ \E flag \in ShelfFlags : \E writeback \in BOOLEAN : ShelfOpen(flag, writeback)
    \/ \E k \in StoreKeys : ShelfGetitem(k)
    \/ \E k \in StoreKeys : \E v \in ShelfValues : ShelfSetitem(k, v)
    \/ \E k \in StoreKeys : \E v \in ShelfValues : ShelfMutate(k, v)
    \/ \E k \in StoreKeys : ShelfDelitem(k)
    \/ ShelfSync
    \/ ShelfClose

SpecShelf == InitShelf /\ [][NextShelf]_vars

\* the value a shelf that opens the file reads for key k
reopened_value(file, k) == unserialize(file.Dict[k].zstd)

\* sync or close has stored every entry of the cache, emptied the cache and
\* left writeback enabled
WrittenBack ==
    /\ \A k \in cache_keys(shelf.cache) :
          /\ k \in DOMAIN store_file'.Dict
          /\ reopened_value(store_file', k) = cache_value(shelf.cache, k)
    /\ shelf'.cache = << >>
    /\ shelf'.writeback

\* C32: with writeback enabled, a sync or a close that returns has written
\* each entry of the cache to the store (so the file holds, for each cached
\* key, the value as last changed in place), has emptied the cache and has
\* left writeback enabled.
C32_SyncWritesBack ==
    [][(/\ last'.op \in {"shelf_sync", "shelf_close"}
        /\ last'.outcome = "return"
        /\ shelf.writeback)
          => WrittenBack]_vars

\* a close with writeback enabled has returned after writing entries of the
\* cache, and the file holds the value 2 for a key
C32_Witness ==
    /\ last.op = "shelf_close"
    /\ last.outcome = "return"
    /\ last.value > 0
    /\ shelf.writeback
    /\ shelf.cache = << >>
    /\ store_file.exists
    /\ \E k \in DOMAIN store_file.Dict : reopened_value(store_file, k) = 2

\* C35: with writeback enabled, a set that fails leaves the cache as it was,
\* so every key of the cache is a key of the store.
C35_SetAtomicOnFailure ==
    [][(/\ last'.op = "shelf_set"
        /\ last'.outcome # "return"
        /\ shelf.writeback)
          => /\ shelf'.cache = shelf.cache
             /\ cache_keys(shelf'.cache) \subseteq DOMAIN store_file'.Dict]_vars

\* C33: under policy "lru", whenever a call of the decorated function has
\* returned, every key the memory tier holds has a row in the table.
C33_TierAgreement ==
    (cache_type = "lru" /\ last.op = "call" /\ last.outcome = "return")
        => {memory[i].key : i \in DOMAIN memory} \subseteq KeysOf(table)

\* C34: when optimize_database raises before a dictionary is trained (no
\* samples, a training that fails), the rows, the persisted dictionary and
\* the compressor of the handle are what they were, and every key of a handle
\* whose compressor is bound to the persisted dictionary still decodes to its
\* value.
C34_TrainingFailure ==
    [][(/\ last'.op = "optimize"
        /\ last'.outcome = "ZstdError"
        /\ dbm.cx)
          => /\ store_file' = store_file
             /\ dbm' = dbm
             /\ HandleInOrder =>
                   \A k \in DOMAIN dbm'.Dict : \A w \in WrongDictOutcomes :
                      zstd_decompress(dbm'.compressor, dbm'.Dict[k], w)
                          = Map(dbm.Dict)[k]]_vars

\* optimize_database has raised on an open handle that holds rows written
\* under a trained dictionary
C34_Witness ==
    /\ last.op = "optimize"
    /\ last.outcome = "ZstdError"
    /\ dbm.cx
    /\ dbm.compressor # NoDict
    /\ dbm.compressor = store_file.zstd_dict
    /\ \E k \in DOMAIN store_file.Dict : store_file.Dict[k].dict = dbm.compressor
====
